---- MODULE Spec2Model ----
(***************************************************************************)
(* The news classifier (lib/newsClassifier): the category keyword table,   *)
(* the weighted vocabulary built once at module initialisation, the text   *)
(* preprocessor, the two scorers and classifyNews.                         *)
(*                                                                         *)
(* Texts, terms and words are strings; a character is a string of length   *)
(* one.  JavaScript numbers are modelled in fixed point: a finite value v  *)
(* (all values of the classifier are >= 0) is the integer                  *)
(* floor(v * SCALE); NaN and Infinity are two values of their own.         *)
(***************************************************************************)
EXTENDS Integers, Sequences, FiniteSets, TLC

VARIABLES
  pc,                  \* "build": module initialisation runs; "ready": no call
                       \* in progress; "returned": classifyNews has returned
  cursor,              \* position of createWeightedVocabulary in its iteration
  weightedVocabulary,  \* the module-level Map word -> weight
  text,                \* the argument of the last call
  result,              \* what the last call returned (NoResult: nothing)
  thrown,              \* the error the last call threw ("none": it returned)
  calls,               \* the calls made so far: <<[text, result]>>
  fetchCall,           \* the running call of fetchWithRetryAndFallback: its
                       \* position, its locals and what it returned or threw
  requests,            \* the requests that call has issued, in order
  user,                \* the user of the auth store (NoUser: null)
  userHistoryTable,    \* the rows of user_history of the user, newest first
  dashboard,           \* the state of the Dashboard component
  loadCall,            \* the running call of fetchUserHistory (and of
                       \* fetchRecommendations inside it): position and locals
  home,                \* the state of the Home component
  authCall             \* the running call of signIn, signUp or signOut of
                       \* the auth store: position, arguments and outcome

classifierVars == <<pc, cursor, weightedVocabulary, text, result, thrown, calls>>
fetchVars == <<fetchCall, requests>>
dashboardVars == <<user, userHistoryTable, dashboard, loadCall>>
homeVars == <<home>>
authVars == <<authCall>>

vars == <<classifierVars, fetchVars, dashboardVars, homeVars, authVars>>

\* what a step of the classifier, of the news client, of the dashboard leaves alone
outsideClassifier == <<fetchVars, dashboardVars, homeVars, authVars>>
outsideFetch == <<classifierVars, dashboardVars, homeVars, authVars>>
outsideDashboard == <<classifierVars, fetchVars, homeVars, authVars>>

(***************************************************************************)
(* Bounds of the model.                                                    *)
(***************************************************************************)
\* the longest generated text, in lexicon words
MaxWords == 2
\* the longest sequence of calls followed in SpecCalls
MaxCalls == 3
\* the most rows user_history gets
MaxRows == 2

(***************************************************************************)
(* categoryKeywords: the keyword table, a const literal that no statement   *)
(* of the module assigns to or mutates, in declaration order (the order of *)
(* Object.entries, Object.values and Object.keys).                         *)
(***************************************************************************)
categoryKeywords ==
  <<
    [ category |-> "Technology", lists |-> <<
        [ type |-> "primary", terms |-> << "ai", "technology", "software", "digital", "cyber", "tech", "computer", "internet", "blockchain", "robot", "code" >> ],
        [ type |-> "secondary", terms |-> << "innovation", "startup", "device", "app", "mobile", "data", "cloud", "programming", "algorithm", "developer" >> ],
        [ type |-> "companies", terms |-> << "google", "apple", "microsoft", "amazon", "meta", "tesla", "nvidia", "intel", "ibm", "oracle" >> ],
        [ type |-> "concepts", terms |-> << "artificial intelligence", "machine learning", "virtual reality", "augmented reality", "cryptocurrency", "5g", "quantum computing", "cybersecurity" >> ],
        [ type |-> "products", terms |-> << "iphone", "android", "windows", "linux", "ios", "web3", "neural network" >> ]
      >> ],
    [ category |-> "Business", lists |-> <<
        [ type |-> "primary", terms |-> << "business", "market", "economy", "finance", "trade", "investment", "stock", "revenue", "profit" >> ],
        [ type |-> "secondary", terms |-> << "startup", "company", "industry", "corporate", "enterprise", "merger", "acquisition", "venture" >> ],
        [ type |-> "financial", terms |-> << "nasdaq", "dow jones", "sp500", "wall street", "ipo", "earnings", "shares", "dividend", "portfolio" >> ],
        [ type |-> "concepts", terms |-> << "quarterly report", "market analysis", "economic growth", "fiscal policy", "monetary policy", "inflation", "recession" >> ],
        [ type |-> "sectors", terms |-> << "banking", "retail", "manufacturing", "real estate", "energy", "automotive" >> ]
      >> ],
    [ category |-> "Politics", lists |-> <<
        [ type |-> "primary", terms |-> << "politics", "government", "election", "policy", "congress", "senate", "democrat", "republican", "parliament" >> ],
        [ type |-> "secondary", terms |-> << "legislation", "vote", "campaign", "political", "president", "administration", "diplomatic", "governor" >> ],
        [ type |-> "international", terms |-> << "foreign policy", "international relations", "diplomacy", "treaty", "sanctions", "united nations", "eu" >> ],
        [ type |-> "concepts", terms |-> << "democracy", "constitution", "bipartisan", "legislative", "judiciary", "executive order" >> ],
        [ type |-> "events", terms |-> << "summit", "referendum", "inauguration", "impeachment", "coalition" >> ]
      >> ],
    [ category |-> "Sports", lists |-> <<
        [ type |-> "primary", terms |-> << "sports", "game", "team", "player", "championship", "tournament", "match", "score", "athlete" >> ],
        [ type |-> "secondary", terms |-> << "win", "lose", "victory", "defeat", "season", "league", "coach", "stadium", "record" >> ],
        [ type |-> "leagues", terms |-> << "nfl", "nba", "mlb", "nhl", "fifa", "uefa", "olympics", "premier league", "formula 1" >> ],
        [ type |-> "concepts", terms |-> << "world cup", "super bowl", "playoffs", "final four", "grand slam", "medal", "draft" >> ],
        [ type |-> "roles", terms |-> << "quarterback", "striker", "pitcher", "defender", "manager", "referee" >> ]
      >> ],
    [ category |-> "Entertainment", lists |-> <<
        [ type |-> "primary", terms |-> << "entertainment", "movie", "film", "music", "celebrity", "actor", "actress", "star", "director" >> ],
        [ type |-> "secondary", terms |-> << "hollywood", "tv", "show", "series", "album", "concert", "award", "performance", "cast" >> ],
        [ type |-> "events", terms |-> << "oscar", "grammy", "emmy", "golden globe", "festival", "premiere", "red carpet" >> ],
        [ type |-> "concepts", terms |-> << "box office", "streaming", "rating", "review", "debut", "sequel", "franchise" >> ],
        [ type |-> "platforms", terms |-> << "netflix", "disney", "hbo", "spotify", "amazon prime", "hulu" >> ]
      >> ],
    [ category |-> "Health", lists |-> <<
        [ type |-> "primary", terms |-> << "health", "medical", "disease", "treatment", "patient", "doctor", "hospital", "medicine", "clinic" >> ],
        [ type |-> "secondary", terms |-> << "research", "study", "clinical", "therapy", "vaccine", "drug", "pharmaceutical", "diagnosis" >> ],
        [ type |-> "conditions", terms |-> << "cancer", "diabetes", "heart disease", "obesity", "mental health", "alzheimer", "covid" >> ],
        [ type |-> "concepts", terms |-> << "public health", "healthcare", "medical research", "clinical trial", "prevention", "wellness" >> ],
        [ type |-> "specialists", terms |-> << "surgeon", "physician", "nurse", "pediatrician", "psychiatrist" >> ]
      >> ],
    [ category |-> "Science", lists |-> <<
        [ type |-> "primary", terms |-> << "science", "research", "study", "discovery", "scientist", "experiment", "theory", "evidence", "laboratory" >> ],
        [ type |-> "secondary", terms |-> << "scientific", "physics", "chemistry", "biology", "astronomy", "climate", "evolution", "genome" >> ],
        [ type |-> "fields", terms |-> << "quantum", "molecular", "genetic", "environmental", "neuroscience", "biochemistry", "astrophysics" >> ],
        [ type |-> "concepts", terms |-> << "peer review", "scientific method", "breakthrough", "hypothesis", "observation", "data analysis" >> ],
        [ type |-> "institutions", terms |-> << "nasa", "cern", "university", "laboratory", "institute" >> ]
      >> ]
  >>

(***************************************************************************)
(* Maps and arrays.                                                        *)
(***************************************************************************)
EmptyMap == [k \in {} |-> 0]

\* A Map holds its values: a function written [k \in S |-> e] stands for the
\* rule e and is evaluated again at every application; f @@ EmptyMap is the
\* same function as a table of values, each computed once.
NewMap(f) == f @@ EmptyMap

\* the same for an array
NewArray(s) == s \o <<>>

\* Map.prototype.set
MapSet(m, k, v) == [x \in DOMAIN m \cup {k} |-> IF x = k THEN v ELSE m[x]]

\* Map.prototype.has
MapHas(m, k) == k \in DOMAIN m

RECURSIVE Flatten(_)
\* the concatenation of a sequence of sequences (nested forEach)
Flatten(ss) == IF ss = <<>> THEN <<>> ELSE Head(ss) \o Flatten(Tail(ss))

CategoryNames == {categoryKeywords[i].category : i \in 1..Len(categoryKeywords)}

(***************************************************************************)
(* Strings.                                                                *)
(***************************************************************************)
CharAt(s, i) == SubSeq(s, i, i)

UpperCaseLetters == "ABCDEFGHIJKLMNOPQRSTUVWXYZ"
LowerCaseLetters == "abcdefghijklmnopqrstuvwxyz"
Digits == "0123456789"

CharsOf(s) == {CharAt(s, i) : i \in 1..Len(s)}

\* \w of the regular expressions: [A-Za-z0-9_]
WordChars == CharsOf(UpperCaseLetters) \cup CharsOf(LowerCaseLetters) \cup CharsOf(Digits) \cup {"_"}

\* \s of the regular expressions, on the characters the texts use
WhiteSpace == {" ", "\t", "\n"}

LowerOf == [c \in CharsOf(UpperCaseLetters) |->
              CharAt(LowerCaseLetters, CHOOSE i \in 1..26 : CharAt(UpperCaseLetters, i) = c)]

LowerChar(c) == IF c \in DOMAIN LowerOf THEN LowerOf[c] ELSE c

\* the replacement of .replace(/[^\w\s]/g, ' ') for one character
WordOrSpace(c) == IF c \in WordChars \cup WhiteSpace THEN c ELSE " "

RECURSIVE LowerRange(_, _, _)
\* the characters lo..hi of s in lower case (the range is halved, so that the
\* depth of the evaluation is the logarithm of the length)
LowerRange(s, lo, hi) ==
  IF lo > hi THEN ""
  ELSE IF lo = hi THEN LowerChar(CharAt(s, lo))
  ELSE LET mid == (lo + hi) \div 2
       IN  LowerRange(s, lo, mid) \o LowerRange(s, mid + 1, hi)

\* String.prototype.toLowerCase
ToLowerCase(s) == LowerRange(s, 1, Len(s))

RECURSIVE ReplaceRange(_, _, _)
ReplaceRange(s, lo, hi) ==
  IF lo > hi THEN ""
  ELSE IF lo = hi THEN WordOrSpace(CharAt(s, lo))
  ELSE LET mid == (lo + hi) \div 2
       IN  ReplaceRange(s, lo, mid) \o ReplaceRange(s, mid + 1, hi)

\* .replace(/[^\w\s]/g, ' ')
ReplaceNonWord(s) == ReplaceRange(s, 1, Len(s))

\* the k-th smallest element of a set of integers
Kth(S, k) == CHOOSE x \in S : Cardinality({y \in S : y < x}) = k - 1

\* The pieces of s between its separators.  With runs = TRUE a maximal run of
\* separator characters is one separator (split(/\s+/)), otherwise every
\* separator character is one (split(' ')).  As in JavaScript, a separator at
\* either end leaves an empty piece there, and "" splits into <<"">>.
SplitOn(s, seps, runs) ==
  LET at == {i \in 1..Len(s) : CharAt(s, i) \in seps}
      starts == IF runs THEN {i \in at : (i - 1) \notin at} ELSE at
      ends == IF runs THEN {i \in at : (i + 1) \notin at} ELSE at
      m == Cardinality(starts)
  IN  NewArray([k \in 1..(m + 1) |->
         SubSeq(s,
                IF k = 1 THEN 1 ELSE Kth(ends, k - 1) + 1,
                IF k = m + 1 THEN Len(s) ELSE Kth(starts, k) - 1)])

\* String.prototype.split(' ')
SplitSpace(s) == SplitOn(s, {" "}, FALSE)

\* String.prototype.split(/\s+/)
SplitWhiteSpace(s) == SplitOn(s, WhiteSpace, TRUE)

\* String.prototype.includes
Includes(s, sub) ==
  \E i \in 1..(Len(s) - Len(sub) + 1) : SubSeq(s, i, i + Len(sub) - 1) = sub

\* String.prototype.trim
Trim(s) ==
  LET kept == {i \in 1..Len(s) : CharAt(s, i) \notin WhiteSpace}
  IN  IF kept = {} THEN ""
      ELSE SubSeq(s, CHOOSE i \in kept : \A j \in kept : i <= j,
                     CHOOSE i \in kept : \A j \in kept : j <= i)

\* preprocessText
preprocessText(t) ==
  SelectSeq(SplitWhiteSpace(ReplaceNonWord(ToLowerCase(t))), LAMBDA w : Len(w) > 1)

(***************************************************************************)
(* Numbers.  A finite number v >= 0 is floor(v * SCALE); every operation   *)
(* truncates its exact result to that resolution.                          *)
(***************************************************************************)
SCALE == 10000
NaN == -1
Infinity == -2

Num(n) == n * SCALE

IsFinite(a) == a >= 0

\* a + b
FAdd(a, b) ==
  IF a = NaN \/ b = NaN THEN NaN
  ELSE IF a = Infinity \/ b = Infinity THEN Infinity
  ELSE a + b

\* a * b; the operands are split so that no partial product leaves 32 bits
FMul(a, b) ==
  IF a = NaN \/ b = NaN THEN NaN
  ELSE IF a = Infinity \/ b = Infinity
         THEN (IF a = 0 \/ b = 0 THEN NaN ELSE Infinity)
  ELSE LET ah == a \div SCALE
           al == a % SCALE
           bh == b \div SCALE
           bl == b % SCALE
       IN  ah * bh * SCALE + ah * bl + al * bh + (al * bl) \div SCALE

RECURSIVE FracDigits(_, _, _)
\* the first k decimal digits of r / b, for 0 <= r < b
FracDigits(r, b, k) ==
  IF k = 0 THEN 0
  ELSE LET d == (r * 10) \div b
       IN  d * (10 ^ (k - 1)) + FracDigits((r * 10) % b, b, k - 1)

\* a / b: 0/0 is NaN and x/0 is Infinity, as in IEEE 754
FDiv(a, b) ==
  IF a = NaN \/ b = NaN THEN NaN
  ELSE IF a = Infinity THEN (IF b = Infinity THEN NaN ELSE Infinity)
  ELSE IF b = Infinity THEN 0
  ELSE IF b = 0 THEN (IF a = 0 THEN NaN ELSE Infinity)
  ELSE (a \div b) * SCALE + FracDigits(a % b, b, 4)

\* Math.min(a, b)
MathMin(a, b) ==
  IF a = NaN \/ b = NaN THEN NaN
  ELSE IF a = Infinity THEN b
  ELSE IF b = Infinity THEN a
  ELSE IF a < b THEN a ELSE b

\* A faulty variant of MathMax: Math.min(...values) in its place.
MathMaxAsMin(values) ==
  IF \E i \in 1..Len(values) : values[i] = NaN THEN NaN
  ELSE IF \A i \in 1..Len(values) : values[i] = Infinity THEN Infinity
  ELSE CHOOSE m \in {values[i] : i \in 1..Len(values)} \ {Infinity} :
         \A i \in 1..Len(values) : values[i] = Infinity \/ m <= values[i]

\* Math.max(...values), values a non-empty sequence
MathMax(values) ==
  IF \E i \in 1..Len(values) : values[i] = NaN THEN NaN
  ELSE IF \E i \in 1..Len(values) : values[i] = Infinity THEN Infinity
  ELSE CHOOSE m \in {values[i] : i \in 1..Len(values)} :
         \A i \in 1..Len(values) : values[i] <= m

\* ln 2
LN2 == 6931

RECURSIVE LogReduced(_, _)
\* Math.log of x >= 1: halve x into [1, 2), k times, then
\* ln x = k ln 2 + 2 atanh((x - 1) / (x + 1))
LogReduced(x, k) ==
  IF x >= 2 * SCALE THEN LogReduced(x \div 2, k + 1)
  ELSE LET y  == FDiv(x - SCALE, x + SCALE)
           y2 == FMul(y, y)
           y3 == FMul(y, y2)
           y5 == FMul(y3, y2)
           y7 == FMul(y5, y2)
       IN  k * LN2 + 2 * (y + y3 \div 3 + y5 \div 5 + y7 \div 7)

\* Math.log, on the arguments the classifier gives it (x >= 1)
MathLog(x) ==
  IF x = NaN THEN NaN
  ELSE IF x = Infinity THEN Infinity
  ELSE LogReduced(x, 0)

\* v || dflt: 0, NaN and undefined are falsy
OrElse(v, dflt) == IF v = NaN \/ v = 0 THEN dflt ELSE v

\* m.get(k) || dflt
MapGetOr(m, k, dflt) == IF k \in DOMAIN m THEN OrElse(m[k], dflt) ELSE dflt

RECURSIVE SumRange(_, _, _)
\* f[lo] + ... + f[hi] (the range is halved, as in LowerRange)
SumRange(f, lo, hi) ==
  IF lo > hi THEN 0
  ELSE IF lo = hi THEN f[lo]
  ELSE LET mid == (lo + hi) \div 2
       IN  FAdd(SumRange(f, lo, mid), SumRange(f, mid + 1, hi))

(***************************************************************************)
(* createWeightedVocabulary.  Its nested loops visit the words of the      *)
(* table one after the other; VocabularyEntries is that sequence of        *)
(* visits, each with the loop it belongs to and the weight that loop       *)
(* assigns; cursor is the position of the iteration in it.                 *)
(***************************************************************************)
\* category.primary, category.secondary
ListsOfType(cat, type) == SelectSeq(cat.lists, LAMBDA l : l.type = type)

\* Object.entries(category) without 'primary' and 'secondary'
OtherLists(cat) == SelectSeq(cat.lists, LAMBDA l : l.type \notin {"primary", "secondary"})

\* keyword.split(' ') of every term of the lists, in order
WordsOfLists(lists) ==
  Flatten([i \in 1..Len(lists) |->
             Flatten([j \in 1..Len(lists[i].terms) |-> SplitSpace(lists[i].terms[j])])])

EntriesOf(lists, loop, weight) ==
  LET ws == WordsOfLists(lists)
  IN  NewArray([i \in 1..Len(ws) |-> [word |-> ToLowerCase(ws[i]), loop |-> loop, weight |-> weight]])

PrimaryWeight == 30000
SecondaryWeight == 20000
OtherWeight == 15000
DefaultWeight == 10000

CategoryEntries(cat) ==
     EntriesOf(ListsOfType(cat, "primary"), "primary", PrimaryWeight)
  \o EntriesOf(ListsOfType(cat, "secondary"), "secondary", SecondaryWeight)
  \o EntriesOf(OtherLists(cat), "other", OtherWeight)

VocabularyEntries ==
  Flatten([i \in 1..Len(categoryKeywords) |-> CategoryEntries(categoryKeywords[i])])

Building(loop) ==
  /\ pc = "build"
  /\ cursor <= Len(VocabularyEntries)
  /\ VocabularyEntries[cursor].loop = loop

\* A faulty variant of setPrimaryWord: the primary loop guarded like the loop
\* of the other lists (the first assignment wins).
setPrimaryWordIfAbsent ==
  /\ Building("primary")
  /\ weightedVocabulary' =
       IF ~MapHas(weightedVocabulary, VocabularyEntries[cursor].word)
         THEN MapSet(weightedVocabulary, VocabularyEntries[cursor].word,
                     VocabularyEntries[cursor].weight)
         ELSE weightedVocabulary
  /\ cursor' = cursor + 1
  /\ UNCHANGED <<pc, text, result, thrown, calls, outsideClassifier>>

\* category.primary.forEach ... weightedVocab.set(word.toLowerCase(), 3.0)
setPrimaryWord ==
  /\ Building("primary")
  /\ weightedVocabulary' =
       MapSet(weightedVocabulary, VocabularyEntries[cursor].word, VocabularyEntries[cursor].weight)
  /\ cursor' = cursor + 1
  /\ UNCHANGED <<pc, text, result, thrown, calls, outsideClassifier>>

\* category.secondary.forEach ... weightedVocab.set(word.toLowerCase(), 2.0)
setSecondaryWord ==
  /\ Building("secondary")
  /\ weightedVocabulary' =
       MapSet(weightedVocabulary, VocabularyEntries[cursor].word, VocabularyEntries[cursor].weight)
  /\ cursor' = cursor + 1
  /\ UNCHANGED <<pc, text, result, thrown, calls, outsideClassifier>>

\* A faulty variant of setOtherWord: the guard !weightedVocab.has(word) left out.
setOtherWordUnguarded ==
  /\ Building("other")
  /\ weightedVocabulary' =
       MapSet(weightedVocabulary, VocabularyEntries[cursor].word, VocabularyEntries[cursor].weight)
  /\ cursor' = cursor + 1
  /\ UNCHANGED <<pc, text, result, thrown, calls, outsideClassifier>>

\* the other lists: if (!weightedVocab.has(word)) weightedVocab.set(word, 1.5)
setOtherWord ==
  /\ Building("other")
  /\ weightedVocabulary' =
       IF ~MapHas(weightedVocabulary, VocabularyEntries[cursor].word)
         THEN MapSet(weightedVocabulary, VocabularyEntries[cursor].word,
                     VocabularyEntries[cursor].weight)
         ELSE weightedVocabulary
  /\ cursor' = cursor + 1
  /\ UNCHANGED <<pc, text, result, thrown, calls, outsideClassifier>>

\* const weightedVocabulary = createWeightedVocabulary(): the module is loaded
vocabularyBuilt ==
  /\ pc = "build"
  /\ cursor > Len(VocabularyEntries)
  /\ pc' = "ready"
  /\ UNCHANGED <<cursor, weightedVocabulary, text, result, thrown, calls, outsideClassifier>>

(***************************************************************************)
(* The scorers.                                                            *)
(***************************************************************************)
\* calculateWeightedTfIdf: the Map word -> score of the words of the text
calculateWeightedTfIdf(t) ==
  LET words == preprocessText(t)
      distinct == {words[i] : i \in 1..Len(words)}
      wordFreq == [w \in distinct |-> Cardinality({i \in 1..Len(words) : words[i] = w})]
      size == Cardinality(DOMAIN weightedVocabulary)
  IN  NewMap([w \in distinct |->
         LET freq == wordFreq[w]
             wordWeight == MapGetOr(weightedVocabulary, w, DefaultWeight)
             tf == FDiv(Num(freq), Num(Len(words)))
             idf == MathLog(FAdd(Num(1), FDiv(Num(size), Num(1 + (IF freq > 0 THEN 1 ELSE 0)))))
         IN  FMul(FMul(tf, idf), wordWeight)])

\* A faulty variant of KeywordsOf: the table read at its first key whatever
\* the category (Object.values(categoryKeywords)[0]).
KeywordsOfFirstKey(category) == categoryKeywords[1]

\* categoryKeywords[category]
KeywordsOf(category) ==
  categoryKeywords[CHOOSE i \in 1..Len(categoryKeywords) : categoryKeywords[i].category = category]

\* preprocessText(term) of every term of every list of a category, in the
\* order calculateSemanticSimilarity visits them
TermWords ==
  NewMap([category \in CategoryNames |->
     LET lists == KeywordsOf(category).lists
     IN  Flatten([i \in 1..Len(lists) |->
                    Flatten([j \in 1..Len(lists[i].terms) |-> preprocessText(lists[i].terms[j])])])])

calculateSemanticSimilarity(textScores, category) ==
  LET ws == TermWords[category]
      wordWeight == NewArray([i \in 1..Len(ws) |-> MapGetOr(weightedVocabulary, ws[i], DefaultWeight)])
      wordScore == NewArray([i \in 1..Len(ws) |-> MapGetOr(textScores, ws[i], 0)])
      similarity == SumRange([i \in 1..Len(ws) |-> FMul(wordScore[i], wordWeight[i])], 1, Len(ws))
      totalWeight == SumRange(wordWeight, 1, Len(ws))
  IN  IF totalWeight > 0 THEN FDiv(similarity, totalWeight) ELSE 0

\* type === 'primary' ? 4 : type === 'secondary' ? 3 : 2
MatchWeight(type) == IF type = "primary" THEN 4 ELSE IF type = "secondary" THEN 3 ELSE 2

\* the terms of a category in the order analyzeContextPatterns visits them,
\* each with term.toLowerCase() and the weight of its list
TypedTerms ==
  NewMap([category \in CategoryNames |->
     LET lists == KeywordsOf(category).lists
     IN  Flatten([i \in 1..Len(lists) |->
                    [j \in 1..Len(lists[i].terms) |->
                       [type |-> lists[i].type,
                        lowered |-> ToLowerCase(lists[i].terms[j]),
                        weight |-> MatchWeight(lists[i].type)]]])])

\* A faulty variant of termMatches: the term looked for among the words of
\* the text (words.includes(term)) instead of inside the text.
termMatchesToken(lowered, term) ==
  \E i \in 1..Len(preprocessText(lowered)) : preprocessText(lowered)[i] = term

\* text.toLowerCase().includes(term.toLowerCase())
termMatches(lowered, term) == Includes(lowered, term)

RECURSIVE accumulateMatches(_, _, _, _)
\* the loop over the terms of a category, from term k on: score += weight and
\* matches++ for every term that matches
accumulateMatches(lowered, terms, k, acc) ==
  IF k > Len(terms) THEN acc
  ELSE accumulateMatches(lowered, terms, k + 1,
         IF termMatches(lowered, terms[k].lowered)
           THEN [score |-> acc.score + terms[k].weight, matches |-> acc.matches + 1]
           ELSE acc)

\* let score, let matches of a category once its terms are visited
contextMatches(t, category) ==
  accumulateMatches(ToLowerCase(t), TypedTerms[category], 1, [score |-> 0, matches |-> 0])

\* analyzeContextPatterns: the Map category -> finalScore
analyzeContextPatterns(t) ==
  LET textLength == Len(preprocessText(t))
  IN  NewMap([category \in CategoryNames |->
         LET found == contextMatches(t, category)
             score == found.score
             matches == found.matches
             density == FDiv(Num(matches), Num(textLength))
         IN  FDiv(FMul(Num(score), FAdd(Num(1), density)),
                  FAdd(Num(1), MathLog(FAdd(Num(1), Num(textLength)))))])

(***************************************************************************)
(* classifyNews.                                                           *)
(***************************************************************************)
SemanticShare == 6000
ContextShare == 4000

\* A faulty variant of compareConfidence: a.confidence - b.confidence.
compareConfidenceAscending(a, b) ==
  IF a.confidence = NaN \/ b.confidence = NaN THEN 0
  ELSE IF a.confidence = Infinity /\ b.confidence = Infinity THEN 0
  ELSE IF a.confidence = Infinity THEN 1
  ELSE IF b.confidence = Infinity THEN -1
  ELSE IF a.confidence > b.confidence THEN 1
  ELSE IF a.confidence < b.confidence THEN -1
  ELSE 0

\* the sign of the comparator (a, b) => b.confidence - a.confidence; sort
\* reads a NaN difference as +0
compareConfidence(a, b) ==
  IF a.confidence = NaN \/ b.confidence = NaN THEN 0
  ELSE IF a.confidence = Infinity /\ b.confidence = Infinity THEN 0
  ELSE IF b.confidence = Infinity THEN 1
  ELSE IF a.confidence = Infinity THEN -1
  ELSE IF b.confidence > a.confidence THEN 1
  ELSE IF b.confidence < a.confidence THEN -1
  ELSE 0

\* x put into the sorted array s behind every element that does not sort after it
InsertSorted(s, x) ==
  LET after == {j \in 1..Len(s) : compareConfidence(s[j], x) > 0}
      k == IF after = {} THEN Len(s) + 1 ELSE CHOOSE j \in after : \A h \in after : j <= h
  IN  SubSeq(s, 1, k - 1) \o <<x>> \o SubSeq(s, k, Len(s))

RECURSIVE SortFrom(_, _, _)
SortFrom(s, i, acc) ==
  IF i > Len(s) THEN acc ELSE SortFrom(s, i + 1, InsertSorted(acc, s[i]))

\* A faulty variant of sortPredictions: the .sort(...) call left out.
unsortedPredictions(s) == s

\* Array.prototype.sort with the comparator of classifyNews (a stable sort)
sortPredictions(s) == SortFrom(s, 1, <<>>)

\* the Map predictions: category -> combinedScore, in insertion order
combinedScores(t) ==
  LET textScores == calculateWeightedTfIdf(t)
      contextScores == analyzeContextPatterns(t)
  IN  NewArray([i \in 1..Len(categoryKeywords) |->
         LET category == categoryKeywords[i].category
             semanticScore == calculateSemanticSimilarity(textScores, category)
             contextScore == MapGetOr(contextScores, category, 0)
         IN  [category |-> category,
              score |-> FAdd(FMul(semanticScore, SemanticShare), FMul(contextScore, ContextShare))]])

\* A faulty variant of normalizePredictions: the scores divided by their sum
\* instead of their maximum.
normalizeBySum(predictions) ==
  LET total == SumRange(NewArray([i \in 1..Len(predictions) |-> predictions[i].score]), 1, Len(predictions))
  IN  NewArray([i \in 1..Len(predictions) |->
         [category |-> predictions[i].category,
          confidence |-> MathMin(FMul(FDiv(predictions[i].score, total), Num(100)), Num(100))]])

\* .map(([category, score]) => ({category, confidence: Math.min((score / maxScore) * 100, 100)}))
normalizePredictions(predictions) ==
  LET maxScore == MathMax(NewArray([i \in 1..Len(predictions) |-> predictions[i].score]))
  IN  NewArray([i \in 1..Len(predictions) |->
         [category |-> predictions[i].category,
          confidence |-> MathMin(FMul(FDiv(predictions[i].score, maxScore), Num(100)), Num(100))]])

\* A faulty variant of classifyNews: category and confidence read from the
\* array before it is sorted.
classifyNewsTopUnsorted(t) ==
  LET normalizedPredictions == normalizePredictions(combinedScores(t))
  IN  [category |-> normalizedPredictions[1].category,
       confidence |-> normalizedPredictions[1].confidence,
       predictions |-> sortPredictions(normalizedPredictions)]

\* the value classifyNews(text) returns
classifyNews(t) ==
  LET normalizedPredictions == sortPredictions(normalizePredictions(combinedScores(t)))
  IN  [category |-> normalizedPredictions[1].category,
       confidence |-> normalizedPredictions[1].confidence,
       predictions |-> normalizedPredictions]

NoResult == [category |-> "", confidence |-> NaN, predictions |-> <<>>]

(***************************************************************************)
(* The texts the calls are made with.                                      *)
(***************************************************************************)
Lexicon == <<"stock", "Raised", "zzz", "a", "research", "NASA,", "wall", "street", "laboratory">>

RECURSIVE Phrases(_)
\* the texts of n lexicon words, joined by single spaces
Phrases(n) ==
  IF n = 1 THEN {Lexicon[i] : i \in 1..Len(Lexicon)}
  ELSE {p \o " " \o Lexicon[i] : p \in Phrases(n - 1), i \in 1..Len(Lexicon)}

ScenarioTexts ==
  { "The Federal Reserve raised interest rates amid inflation concerns affecting the stock market",
    "Scientists at NASA announced a breakthrough discovery using a new laboratory experiment",
    "The quarterback led his team to victory in the championship game" }

BlankTexts == {"", " ", " \t\n "}

Texts == UNION {Phrases(n) : n \in 1..MaxWords} \cup ScenarioTexts \cup BlankTexts

\* the texts of the call sequences of SpecCalls
CallTexts == {"stock Raised", "zzz", "research NASA,", ""}

RECURSIVE JoinFrom(_, _)
\* the terms k..Len(terms), joined by single spaces
JoinFrom(terms, k) ==
  IF k > Len(terms) THEN ""
  ELSE IF k = Len(terms) THEN terms[k]
  ELSE terms[k] \o " " \o JoinFrom(terms, k + 1)

\* a text made of every primary keyword of a category
AllPrimaryText(category) == JoinFrom(ListsOfType(KeywordsOf(category), "primary")[1].terms, 1)

\* the texts of the pairs of calls of SpecPairs: for every category the text
\* of its primary keywords, a text with a word of a Technology keyword
\* ("virtual reality") that is no keyword itself, and a text of a Business
\* keyword
PairTexts ==
  {AllPrimaryText(c) : c \in CategoryNames} \cup {"virtual", "stock market"}

(***************************************************************************)
(* The calls.                                                              *)
(***************************************************************************)
\* A faulty variant of callClassifyNews: calculateWeightedTfIdf writes its
\* scores into weightedVocabulary as well (the wrong Map in scores.set).
callClassifyNewsScoresInVocabulary(t) ==
  /\ pc = "ready"
  /\ pc' = "returned"
  /\ text' = t
  /\ result' = classifyNews(t)
  /\ thrown' = "none"
  /\ calls' = Append(calls, [text |-> t, result |-> result'])
  /\ weightedVocabulary' =
       LET scores == calculateWeightedTfIdf(t)
       IN  NewMap([w \in DOMAIN weightedVocabulary \cup DOMAIN scores |->
                     IF w \in DOMAIN scores THEN scores[w] ELSE weightedVocabulary[w]])
  /\ UNCHANGED <<cursor, outsideClassifier>>

\* A faulty variant of callClassifyNews: the default weight of a word that is
\* not in the vocabulary is stored in it (weightedVocabulary.set(word, 1.0)).
callClassifyNewsCachingWeights(t) ==
  /\ pc = "ready"
  /\ pc' = "returned"
  /\ text' = t
  /\ result' = classifyNews(t)
  /\ thrown' = "none"
  /\ calls' = Append(calls, [text |-> t, result |-> result'])
  /\ weightedVocabulary' =
       LET words == preprocessText(t)
       IN  NewMap([w \in DOMAIN weightedVocabulary \cup {words[i] : i \in 1..Len(words)} |->
                     MapGetOr(weightedVocabulary, w, DefaultWeight)])
  /\ UNCHANGED <<cursor, outsideClassifier>>

\* classifyNews(t) is called and returns
callClassifyNews(t) ==
  /\ pc = "ready"
  /\ pc' = "returned"
  /\ text' = t
  /\ result' = classifyNews(t)
  /\ thrown' = "none"
  /\ calls' = Append(calls, [text |-> t, result |-> result'])
  /\ UNCHANGED <<cursor, weightedVocabulary, outsideClassifier>>

\* the caller has taken the result; the next call starts from a fresh page
resultTaken ==
  /\ pc = "returned"
  /\ pc' = "ready"
  /\ text' = ""
  /\ result' = NoResult
  /\ calls' = <<>>
  /\ UNCHANGED <<cursor, weightedVocabulary, thrown, outsideClassifier>>

\* the caller has taken the result and goes on to call again
nextCall ==
  /\ pc = "returned"
  /\ Len(calls) < MaxCalls
  /\ pc' = "ready"
  /\ text' = ""
  /\ result' = NoResult
  /\ UNCHANGED <<cursor, weightedVocabulary, thrown, calls, outsideClassifier>>

(***************************************************************************)
(* The news client: fetchWithRetryAndFallback.  Its awaits are the places  *)
(* where it waits for the network or for a timer: "attempt" is the await   *)
(* of fetchWithProxy, "delay" the await of delay(...).                     *)
(***************************************************************************)
CORS_PROXIES ==
  << "https://api.allorigins.win/raw?url=",
     "https://api.codetabs.com/v1/proxy?quest=",
     "https://corsproxy.io/?" >>

\* retries = 2, the default every call of the module uses
DefaultRetries == 2

\* delay(2000 * (i + 1)) after a 429, delay(1000 * (i + 1)) otherwise
RateLimitDelay == 2000
RetryDelay == 1000

\* An error: axios says whether axios.isAxiosError holds of it, status is
\* error.response?.status (0: there is no response)
AxiosError(status, message) == [axios |-> TRUE, status |-> status, message |-> message]
PlainError(message) == [axios |-> FALSE, status |-> 0, message |-> message]

\* let lastError; before any assignment
Undefined == PlainError("undefined")

\* the ways fetchWithProxy fails: axios.get rejects (a status outside 2xx, no
\* response at all), or one of its three checks of response.data throws
FetchErrors ==
  { AxiosError(429, "Request failed with status code 429"),
    AxiosError(401, "Request failed with status code 401"),
    AxiosError(426, "Request failed with status code 426"),
    AxiosError(500, "Request failed with status code 500"),
    AxiosError(0, "Network Error"),
    PlainError("Invalid response format") }

InvalidApiKey == PlainError("Invalid API key. Please check your configuration.")
UpgradePlan == PlainError("Please upgrade to a paid plan for this feature.")

NoResponse == [proxy |-> "", request |-> 0]

IdleFetch ==
  [pc |-> "idle", retries |-> 0, proxy |-> 0, i |-> 0,
   lastError |-> Undefined, response |-> NoResponse, error |-> Undefined]

\* A faulty variant of AfterAttempt: the inner loop left after one attempt
\* (a break where the loop should go on).
AfterAttemptNextProxy(proxy, i, retries) == [proxy |-> proxy + 1, i |-> 0]

\* the position of the two for loops after attempt i on a proxy: i++, and the
\* next proxy when i < retries fails
AfterAttempt(proxy, i, retries) ==
  IF i + 1 < retries THEN [proxy |-> proxy, i |-> i + 1]
  ELSE IF retries > 0 THEN [proxy |-> proxy + 1, i |-> 0]
  ELSE [proxy |-> Len(CORS_PROXIES) + 1, i |-> 0]

\* fetchWithRetryAndFallback(endpoint) is called, as fetchNewsArticles does
callFetchWithRetryAndFallback ==
  /\ fetchCall.pc = "idle"
  /\ fetchCall' = [IdleFetch EXCEPT !.pc = "attempt", !.retries = DefaultRetries,
                                    !.proxy = 1, !.i = 0]
  /\ requests' = <<>>
  /\ UNCHANGED outsideFetch

\* return await fetchWithProxy(url, proxy): the request succeeds
fetchWithProxySucceeds ==
  /\ fetchCall.pc = "attempt"
  /\ requests' = Append(requests, [proxy |-> CORS_PROXIES[fetchCall.proxy], i |-> fetchCall.i,
                                   outcome |-> "response", error |-> Undefined, delay |-> 0])
  /\ fetchCall' = [fetchCall EXCEPT !.pc = "returned",
                                    !.response = [proxy |-> CORS_PROXIES[fetchCall.proxy],
                                                  request |-> Len(requests')]]
  /\ UNCHANGED outsideFetch

\* the delay the catch block awaits after error e of attempt i (0: it throws)
DelayAfter(e, i) ==
  IF e.axios /\ e.status = 429 THEN RateLimitDelay * (i + 1)
  ELSE IF e.axios /\ e.status \in {401, 426} THEN 0
  ELSE RetryDelay * (i + 1)

\* A faulty variant of fetchWithProxyFails: status 401 is not told from the
\* other errors, the attempt is retried like them.
fetchWithProxyFailsRetrying401(e) ==
  /\ fetchCall.pc = "attempt"
  /\ LET fatal == e.axios /\ e.status = 426
         wait == IF fatal THEN 0
                 ELSE IF e.axios /\ e.status = 429 THEN RateLimitDelay * (fetchCall.i + 1)
                 ELSE RetryDelay * (fetchCall.i + 1)
     IN  /\ requests' = Append(requests, [proxy |-> CORS_PROXIES[fetchCall.proxy], i |-> fetchCall.i,
                                          outcome |-> "error", error |-> e, delay |-> wait])
         /\ fetchCall' =
              IF fatal THEN [fetchCall EXCEPT !.pc = "thrown", !.lastError = e, !.error = UpgradePlan]
              ELSE [fetchCall EXCEPT !.pc = "delay", !.lastError = e]
  /\ UNCHANGED outsideFetch

\* fetchWithProxy throws e: the catch block, up to the throw or the await of
\* the delay
fetchWithProxyFails(e) ==
  /\ fetchCall.pc = "attempt"
  /\ requests' = Append(requests, [proxy |-> CORS_PROXIES[fetchCall.proxy], i |-> fetchCall.i,
                                   outcome |-> "error", error |-> e,
                                   delay |-> DelayAfter(e, fetchCall.i)])
  /\ fetchCall' =
       IF e.axios /\ e.status = 429
         THEN [fetchCall EXCEPT !.pc = "delay", !.lastError = e]
       ELSE IF e.axios /\ e.status = 401
         THEN [fetchCall EXCEPT !.pc = "thrown", !.lastError = e, !.error = InvalidApiKey]
       ELSE IF e.axios /\ e.status = 426
         THEN [fetchCall EXCEPT !.pc = "thrown", !.lastError = e, !.error = UpgradePlan]
       ELSE [fetchCall EXCEPT !.pc = "delay", !.lastError = e]
  /\ UNCHANGED outsideFetch

\* the delay is over: i++ and the loop conditions; after the last proxy,
\* throw lastError
delayElapsed ==
  /\ fetchCall.pc = "delay"
  /\ LET next == AfterAttempt(fetchCall.proxy, fetchCall.i, fetchCall.retries)
     IN  fetchCall' =
           IF next.proxy > Len(CORS_PROXIES)
             THEN [fetchCall EXCEPT !.pc = "thrown", !.error = fetchCall.lastError]
             ELSE [fetchCall EXCEPT !.pc = "attempt", !.proxy = next.proxy, !.i = next.i]
  /\ UNCHANGED <<requests, outsideFetch>>

\* fetchNewsArticles has the response or the error; the call is over
fetchSettled ==
  /\ fetchCall.pc \in {"returned", "thrown"}
  /\ fetchCall' = IdleFetch
  /\ requests' = <<>>
  /\ UNCHANGED outsideFetch

(***************************************************************************)
(* fetchNewsArticles, as the pages see it: it resolves with the articles   *)
(* made of what the API sent, or rejects with a message.                   *)
(***************************************************************************)
RawArticle(title, description) == [title |-> title, description |-> description]

\* what the API may send: nothing; two articles whose titles differ only in a
\* trailing space; two articles; five articles, the first without a
\* description
RawBatches ==
  { <<>>,
    <<RawArticle("t1", "d1"), RawArticle("t1 ", "d1")>>,
    <<RawArticle("t1", "d1"), RawArticle("t2", "d2")>>,
    <<RawArticle("t5", ""), RawArticle("t2", "d2"), RawArticle("t3", "d3"),
      RawArticle("t4", "d4"), RawArticle("t1", "d1")>> }

\* the messages getErrorMessage gives to the error fetchNewsArticles throws
NewsErrorMessages ==
  { "Rate limit exceeded. Please try again later.",
    "Failed to fetch news. Please try again later." }

\* response.data.articles.filter(...).map(...): category is "" for a call
\* without a category
newsArticles(category, raw) ==
  LET kept == SelectSeq(raw, LAMBDA a : a.title # "" /\ a.description # "")
  IN  [n \in 1..Len(kept) |->
         [title |-> Trim(kept[n].title),
          category |-> IF category # "" THEN category ELSE "General"]]

(***************************************************************************)
(* The Dashboard page.  loadCall.history is the history of the render      *)
(* whose fetchUserHistory and fetchRecommendations are running: a closure  *)
(* keeps the state of its render, whatever setHistory is given later.      *)
(* One handler runs at a time: a recommendation is not clicked while       *)
(* another click is being handled.                                         *)
(***************************************************************************)
NoUser == "null"

Users == {"user-1"}

DEFAULT_CATEGORIES == <<"Technology", "Business", "Science">>

\* .limit(10)
HistoryLimit == 10
\* .slice(0, 3) of the categories
TopCategories == 3
\* the 3 of allRecommendations.length < 3, >= 3 and 3 - allRecommendations.length
WantedRecommendations == 3
maxAttempts == 3

\* the articles the Home page shows and its reader may open
HomeArticles ==
  { [title |-> "t1", category |-> "Sports"],
    [title |-> "t2", category |-> "General"] }

NoArticle == [title |-> "", category |-> ""]

\* historyError.message, when the select fails
HistoryErrorMessage == "JWT expired"

InitialDashboard ==
  [mounted |-> FALSE, history |-> <<>>, categoryStats |-> <<>>, recommendations |-> <<>>,
   isLoading |-> FALSE, error |-> "null"]

IdleLoad ==
  [pc |-> "idle", history |-> <<>>, article |-> NoArticle, historyData |-> <<>>,
   categories |-> <<>>, k |-> 0, allRecommendations |-> <<>>, attempts |-> 0]

\* the first n elements of an array: .slice(0, n), .limit(n)
Slice(arr, n) == SubSeq(arr, 1, IF n < Len(arr) THEN n ELSE Len(arr))

\* arr.some(x => x.title === title)
SomeTitle(arr, title) == \E n \in 1..Len(arr) : arr[n].title = title

\* historyData.reduce(...) and Object.entries(categories).map(...): the
\* categories in the order of their first row, each with its number of rows
categoryStatsOf(rows) ==
  LET firsts == {n \in 1..Len(rows) : \A m \in 1..(n - 1) : rows[m].category # rows[n].category}
  IN  [n \in 1..Cardinality(firsts) |->
         [name |-> rows[Kth(firsts, n)].category,
          value |-> Cardinality({m \in 1..Len(rows) : rows[m].category = rows[Kth(firsts, n)].category})]]

RECURSIVE sortByValue(_, _, _)
\* categoryStatsData.sort((a, b) => b.value - a.value), from element n on,
\* acc being the elements before it in their sorted order
sortByValue(stats, n, acc) ==
  IF n > Len(stats) THEN acc
  ELSE LET after == {m \in 1..Len(acc) : acc[m].value < stats[n].value}
           at == IF after = {} THEN Len(acc) + 1 ELSE Kth(after, 1)
       IN  sortByValue(stats, n + 1, SubSeq(acc, 1, at - 1) \o <<stats[n]>> \o SubSeq(acc, at, Len(acc)))

\* recommendationCategories
recommendationCategoriesOf(stats) ==
  IF Len(stats) > 0
    THEN LET sorted == sortByValue(stats, 1, <<>>)
         IN  Slice([n \in 1..Len(sorted) |-> sorted[n].name], TopCategories)
    ELSE DEFAULT_CATEGORIES

\* A faulty variant of newRecommendationsOf: .slice(0, 3) whatever is there.
newRecommendationsSliceThree(articles, allRecommendations, history, count) ==
  Slice(SelectSeq(articles, LAMBDA article :
                    /\ ~SomeTitle(allRecommendations, article.title)
                    /\ ~SomeTitle(history, article.title)),
        WantedRecommendations)

\* articles.filter(...).slice(0, count)
newRecommendationsOf(articles, allRecommendations, history, count) ==
  Slice(SelectSeq(articles, LAMBDA article :
                    /\ ~SomeTitle(allRecommendations, article.title)
                    /\ ~SomeTitle(history, article.title)),
        count)

RECURSIVE whileHead(_)
\* for (const category of categories) at its k-th category, and what follows
\* the loop: the fetch of that category; past the last category or at the
\* break, the general fetch if articles are missing, else attempts++ and the
\* while condition again
forHead(f, k) ==
  IF k <= Len(f.categories) /\ Len(f.allRecommendations) < WantedRecommendations
    THEN [f EXCEPT !.pc = "fetchCategory", !.k = k]
  ELSE IF Len(f.allRecommendations) < WantedRecommendations
    THEN [f EXCEPT !.pc = "fetchGeneral"]
  ELSE whileHead([f EXCEPT !.attempts = @ + 1])

\* while (allRecommendations.length < 3 && attempts < maxAttempts), then
\* return allRecommendations
whileHead(f) ==
  IF Len(f.allRecommendations) < WantedRecommendations /\ f.attempts < maxAttempts
    THEN forHead(f, 1)
    ELSE [f EXCEPT !.pc = "return"]

\* the frame f has reached its next await, or the return of
\* fetchRecommendations: then setRecommendations and the finally block; of
\* the locals, the list returned and the number of rounds stay on record
loadContinues(f) ==
  IF f.pc = "return"
    THEN /\ dashboard' = [dashboard EXCEPT !.recommendations = f.allRecommendations,
                                            !.isLoading = FALSE]
         /\ loadCall' = [IdleLoad EXCEPT !.pc = "done",
                                         !.allRecommendations = f.allRecommendations,
                                         !.attempts = f.attempts]
    ELSE /\ loadCall' = f
         /\ UNCHANGED dashboard

NoLoadRunning == loadCall.pc \in {"idle", "done", "failed"}

\* supabase.auth.getSession().then(...): the stored session gives the user
authSessionLoaded(u) ==
  /\ user = NoUser
  /\ user' = u
  /\ UNCHANGED <<userHistoryTable, dashboard, loadCall, outsideDashboard>>

\* Home's handleArticleClick: the reader opens an article of the Home page
\* and a row goes into user_history
homeArticleRead(a) ==
  /\ user # NoUser
  /\ ~dashboard.mounted
  /\ Len(userHistoryTable) < MaxRows
  /\ userHistoryTable' = <<a>> \o userHistoryTable
  /\ UNCHANGED <<user, dashboard, loadCall, outsideDashboard>>

\* the Dashboard is mounted (PrivateRoute: there is a user) and its effect
\* runs fetchUserHistory of the first render, up to the await of the select
mountDashboard ==
  /\ user # NoUser
  /\ ~dashboard.mounted
  /\ dashboard' = [InitialDashboard EXCEPT !.mounted = TRUE, !.isLoading = TRUE, !.error = "null"]
  /\ loadCall' = [IdleLoad EXCEPT !.pc = "select", !.history = InitialDashboard.history]
  /\ UNCHANGED <<user, userHistoryTable, outsideDashboard>>

\* the select resolves with the rows: setHistory, setCategoryStats, the
\* recommendation categories, and fetchRecommendations up to its first await
selectReturned ==
  /\ loadCall.pc = "select"
  /\ LET historyData == Slice(userHistoryTable, HistoryLimit)
         categoryStatsData == categoryStatsOf(historyData)
         f == [loadCall EXCEPT !.historyData = historyData,
                               !.categories = recommendationCategoriesOf(categoryStatsData),
                               !.allRecommendations = <<>>,
                               !.attempts = 0]
         started == whileHead(f)
     IN  /\ loadCall' = started
         /\ dashboard' = [dashboard EXCEPT !.history = historyData,
                                           !.categoryStats = categoryStatsData]
  /\ UNCHANGED <<user, userHistoryTable, outsideDashboard>>

\* the select resolves with an error: throw historyError, setError, finally
selectFailed ==
  /\ loadCall.pc = "select"
  /\ loadCall' = [loadCall EXCEPT !.pc = "failed"]
  /\ dashboard' = [dashboard EXCEPT !.error = HistoryErrorMessage, !.isLoading = FALSE]
  /\ UNCHANGED <<user, userHistoryTable, outsideDashboard>>

\* fetchNewsArticles resolves with the articles of raw
newsArticlesReturned(raw) ==
  /\ loadCall.pc \in {"fetchCategory", "fetchGeneral"}
  /\ LET articles == newsArticles(IF loadCall.pc = "fetchCategory"
                                    THEN loadCall.categories[loadCall.k] ELSE "", raw)
         newRecommendations ==
           newRecommendationsOf(articles, loadCall.allRecommendations, loadCall.history,
                                WantedRecommendations - Len(loadCall.allRecommendations))
         f == [loadCall EXCEPT !.allRecommendations = @ \o newRecommendations]
     IN  loadContinues(IF loadCall.pc = "fetchCategory"
                         THEN forHead(f, loadCall.k + 1)
                         ELSE whileHead([f EXCEPT !.attempts = @ + 1]))
  /\ UNCHANGED <<user, userHistoryTable, outsideDashboard>>

\* fetchNewsArticles rejects: the catch block logs, then attempts++
newsArticlesThrew(message) ==
  /\ loadCall.pc \in {"fetchCategory", "fetchGeneral"}
  /\ loadContinues(whileHead([loadCall EXCEPT !.attempts = @ + 1]))
  /\ UNCHANGED <<user, userHistoryTable, outsideDashboard>>

\* handleArticleClick on the n-th recommendation shown, up to the await of
\* the insert; the recommendations are shown when isLoading is false
clickRecommendation(n) ==
  /\ dashboard.mounted
  /\ ~dashboard.isLoading
  /\ NoLoadRunning
  /\ n \in 1..Len(dashboard.recommendations)
  /\ Len(userHistoryTable) < MaxRows
  /\ loadCall' = [IdleLoad EXCEPT !.pc = "insert", !.article = dashboard.recommendations[n],
                                  !.history = dashboard.history]
  /\ UNCHANGED <<user, userHistoryTable, dashboard, outsideDashboard>>

\* the insert resolves, with the row stored or not (its error is not read):
\* window.open, then fetchUserHistory up to the await of the select
insertSettled(stored) ==
  /\ loadCall.pc = "insert"
  /\ userHistoryTable' = IF stored THEN <<loadCall.article>> \o userHistoryTable
                         ELSE userHistoryTable
  /\ loadCall' = [loadCall EXCEPT !.pc = "select"]
  /\ dashboard' = [dashboard EXCEPT !.isLoading = TRUE, !.error = "null"]
  /\ UNCHANGED <<user, outsideDashboard>>

(***************************************************************************)
(* The Home page: the text box and the Classify button.  classifyNewsText  *)
(* has no await in it: it runs from the click to its end in one step, and  *)
(* React renders once with all it has set.                                 *)
(***************************************************************************)
InitialHome ==
  [classificationText |-> "", isClassifying |-> FALSE,
   classificationResult |-> NoResult, error |-> "null"]

\* what the reader may type into the text box
HomeTexts == {"", " ", " \t\n ", "stock Raised", "zzz", " research NASA, "}

\* onChange of the text box: setClassificationText(e.target.value)
setClassificationText(t) ==
  /\ home.classificationText # t
  /\ home' = [home EXCEPT !.classificationText = t]
  /\ UNCHANGED <<classifierVars, fetchVars, dashboardVars, authVars>>

\* what classifyNewsText does once a guard has let it pass: the sets, the
\* call in the try block, the catch and the finally
classifyPassed ==
  /\ text' = home.classificationText
  /\ result' = classifyNews(home.classificationText)
  /\ thrown' = "none"   \* classifyNews has no throw in it
  /\ calls' = Append(calls, [text |-> text', result |-> result'])
  /\ home' = IF thrown' = "none"
               THEN [home EXCEPT !.isClassifying = FALSE, !.error = "null",
                                 !.classificationResult = result']
               ELSE [home EXCEPT !.isClassifying = FALSE,
                                 !.error = "Classification failed: " \o thrown']

\* A faulty variant of classifyNewsText: the guard without the trim
\* (!classificationText || isClassifying).
classifyNewsTextUntrimmed ==
  /\ pc = "ready"
  /\ home.classificationText # ""
  /\ ~home.isClassifying
  /\ Len(calls) < MaxCalls
  /\ IF home.classificationText = "" \/ home.isClassifying
       THEN UNCHANGED <<text, result, thrown, calls, home>>
       ELSE classifyPassed
  /\ UNCHANGED <<pc, cursor, weightedVocabulary, fetchVars, dashboardVars, authVars>>

\* a click on the Classify button, which is enabled when the text is not
\* empty and no classification is in progress: classifyNewsText
classifyNewsText ==
  /\ pc = "ready"
  /\ home.classificationText # ""
  /\ ~home.isClassifying
  /\ Len(calls) < MaxCalls
  /\ IF Trim(home.classificationText) = "" \/ home.isClassifying
       THEN UNCHANGED <<text, result, thrown, calls, home>>
       ELSE classifyPassed
  /\ UNCHANGED <<pc, cursor, weightedVocabulary, fetchVars, dashboardVars, authVars>>

(***************************************************************************)
(* The auth store.  signIn, signUp and signOut are async: each awaits the  *)
(* answer of supabase.auth, { data, error }, and then throws or sets the   *)
(* user.  authCall is the running call: where it is, its arguments, the    *)
(* answer it got and what it threw.  The listeners of the store set the    *)
(* user as well, whenever supabase reports an event.                       *)
(***************************************************************************)
IdleAuth ==
  [pc |-> "idle", action |-> "null", email |-> "null", password |-> "null",
   response |-> [error |-> "null", user |-> NoUser], thrown |-> "null"]

Emails == {"a@news.org", "b@news.org"}
Passwords == {"secret", "guess"}
\* the users supabase may answer with
AuthUsers == Users \cup {"user-2"}

InvalidLogin == "Invalid login credentials"
AlreadyRegistered == "AuthApiError: User already registered"

\* the error messages supabase may answer with, for each action
BackendErrors(action) ==
  CASE action = "signIn" -> {InvalidLogin, "Email not confirmed"}
    [] action = "signUp" -> {AlreadyRegistered, "Password should be at least 6 characters"}
    [] action = "signOut" -> {"Network request failed"}
    [] OTHER -> {}

\* the answers of supabase.auth to an action: { data: { user }, error }
Responses(action) ==
  IF action \notin {"signIn", "signUp", "signOut"} THEN {}
  ELSE {[error |-> "null", user |-> IF action = "signOut" THEN NoUser ELSE u] : u \in AuthUsers}
         \cup {[error |-> m, user |-> NoUser] : m \in BackendErrors(action)}

\* what the action throws for the error of an answer
thrownFor(action, error) ==
  CASE action = "signIn" /\ error = InvalidLogin -> "Invalid email or password"
    [] action = "signUp" /\ Includes(error, "User already registered") -> "Email already in use"
    [] OTHER -> error

\* signIn(email, password), called from the login page, up to its await
callSignIn(email, password) ==
  /\ authCall.pc = "idle"
  /\ user = NoUser
  /\ authCall' = [IdleAuth EXCEPT !.pc = "await", !.action = "signIn",
                                  !.email = email, !.password = password]
  /\ UNCHANGED <<classifierVars, fetchVars, dashboardVars, homeVars>>

\* signUp(email, password), called from the login page, up to its await
callSignUp(email, password) ==
  /\ authCall.pc = "idle"
  /\ user = NoUser
  /\ authCall' = [IdleAuth EXCEPT !.pc = "await", !.action = "signUp",
                                  !.email = email, !.password = password]
  /\ UNCHANGED <<classifierVars, fetchVars, dashboardVars, homeVars>>

\* handleLogout: signOut(), up to its await
callSignOut ==
  /\ authCall.pc = "idle"
  /\ user # NoUser
  /\ authCall' = [IdleAuth EXCEPT !.pc = "await", !.action = "signOut"]
  /\ UNCHANGED <<classifierVars, fetchVars, dashboardVars, homeVars>>

\* A faulty variant of authResolved: the user is set before the error of the
\* answer is looked at.
authResolvedSetFirst(response) ==
  /\ authCall.pc = "await"
  /\ response \in Responses(authCall.action)
  /\ user' = response.user
  /\ IF response.error # "null"
       THEN authCall' = [authCall EXCEPT !.pc = "thrown", !.response = response,
                                         !.thrown = thrownFor(authCall.action, response.error)]
       ELSE authCall' = [authCall EXCEPT !.pc = "returned", !.response = response]
  /\ UNCHANGED <<userHistoryTable, dashboard, loadCall, classifierVars, fetchVars, homeVars>>

\* the await of the running action resolves with the answer of supabase:
\* the action throws on an error, and sets the user otherwise
authResolved(response) ==
  /\ authCall.pc = "await"
  /\ response \in Responses(authCall.action)
  /\ IF response.error # "null"
       THEN /\ authCall' = [authCall EXCEPT !.pc = "thrown", !.response = response,
                                            !.thrown = thrownFor(authCall.action, response.error)]
            /\ user' = user
       ELSE /\ authCall' = [authCall EXCEPT !.pc = "returned", !.response = response]
            /\ user' = IF authCall.action = "signOut" THEN NoUser ELSE response.user
  /\ UNCHANGED <<userHistoryTable, dashboard, loadCall, classifierVars, fetchVars, homeVars>>

\* the caller has got the result or the error of the action
authSettled ==
  /\ authCall.pc \in {"returned", "thrown"}
  /\ authCall' = IdleAuth
  /\ UNCHANGED <<classifierVars, fetchVars, dashboardVars, homeVars>>

AuthEvents == {"SIGNED_OUT", "USER_DELETED", "SIGNED_IN", "TOKEN_REFRESHED", "USER_UPDATED"}

\* the first listener of onAuthStateChange: session is session?.user ?? null
authStateChanged(event, session) ==
  /\ user' = CASE event \in {"SIGNED_OUT", "USER_DELETED"} -> NoUser
               [] event \in {"SIGNED_IN", "TOKEN_REFRESHED"} -> session
               [] OTHER -> user
  /\ UNCHANGED <<userHistoryTable, dashboard, loadCall, classifierVars, fetchVars, homeVars, authVars>>

\* refreshSession, started by the second listener on TOKEN_REFRESHED: its
\* getSession resolves; session is the user of the session, or null when
\* there is no session or getSession reported an error
refreshSessionSettled(session) ==
  /\ user' = session
  /\ UNCHANGED <<userHistoryTable, dashboard, loadCall, classifierVars, fetchVars, homeVars, authVars>>

\* the caller has taken the result of a first call and calls a second time
pairCall ==
  /\ pc = "returned"
  /\ Len(calls) = 1
  /\ pc' = "ready"
  /\ text' = ""
  /\ result' = NoResult
  /\ UNCHANGED <<cursor, weightedVocabulary, thrown, calls, outsideClassifier>>

Init ==
  /\ pc = "build"
  /\ cursor = 1
  /\ weightedVocabulary = EmptyMap
  /\ text = ""
  /\ result = NoResult
  /\ thrown = "none"
  /\ calls = <<>>
  /\ fetchCall = IdleFetch
  /\ requests = <<>>
  /\ user = NoUser
  /\ userHistoryTable = <<>>
  /\ dashboard = InitialDashboard
  /\ loadCall = IdleLoad
  /\ home = InitialHome
  /\ authCall = IdleAuth

Next ==
  \/ setPrimaryWord
  \/ setSecondaryWord
  \/ setOtherWord
  \/ vocabularyBuilt
  \/ \E t \in Texts : callClassifyNews(t)
  \/ resultTaken

Spec == Init /\ [][Next]_vars

NextCalls ==
  \/ setPrimaryWord
  \/ setSecondaryWord
  \/ setOtherWord
  \/ vocabularyBuilt
  \/ \E t \in CallTexts : callClassifyNews(t)
  \/ nextCall

SpecCalls == Init /\ [][NextCalls]_vars

NextPairs ==
  \/ setPrimaryWord
  \/ setSecondaryWord
  \/ setOtherWord
  \/ vocabularyBuilt
  \/ \E t \in PairTexts : callClassifyNews(t)
  \/ pairCall

SpecPairs == Init /\ [][NextPairs]_vars

NextFetch ==
  \/ callFetchWithRetryAndFallback
  \/ fetchWithProxySucceeds
  \/ \E e \in FetchErrors : fetchWithProxyFails(e)
  \/ delayElapsed
  \/ fetchSettled

SpecFetch == Init /\ [][NextFetch]_vars

NextDashboard ==
  \/ \E u \in Users : authSessionLoaded(u)
  \/ \E a \in HomeArticles : homeArticleRead(a)
  \/ mountDashboard
  \/ selectReturned
  \/ selectFailed
  \/ \E raw \in RawBatches : newsArticlesReturned(raw)
  \/ \E message \in NewsErrorMessages : newsArticlesThrew(message)
  \/ \E n \in 1..WantedRecommendations : clickRecommendation(n)
  \/ \E stored \in BOOLEAN : insertSettled(stored)

SpecDashboard == Init /\ [][NextDashboard]_vars

NextHome ==
  \/ setPrimaryWord
  \/ setSecondaryWord
  \/ setOtherWord
  \/ vocabularyBuilt
  \/ \E t \in HomeTexts : setClassificationText(t)
  \/ classifyNewsText

SpecHome == Init /\ [][NextHome]_vars

NextAuth ==
  \/ \E u \in Users : authSessionLoaded(u)
  \/ \E email \in Emails, password \in Passwords : callSignIn(email, password)
  \/ \E email \in Emails, password \in Passwords : callSignUp(email, password)
  \/ callSignOut
  \/ \E response \in Responses(authCall.action) : authResolved(response)
  \/ authSettled
  \/ \E event \in AuthEvents, session \in AuthUsers \cup {NoUser} : authStateChanged(event, session)
  \/ \E session \in AuthUsers \cup {NoUser} : refreshSessionSettled(session)

SpecAuth == Init /\ [][NextAuth]_vars

(***************************************************************************)
(* The properties.                                                         *)
(***************************************************************************)
\* the position of a category in the declaration order
DeclarationIndex(category) ==
  CHOOSE i \in 1..Len(categoryKeywords) : categoryKeywords[i].category = category

Confidences == [i \in 1..Len(result.predictions) |-> result.predictions[i].confidence]

\* every combined score of the text of the last call is zero
NoSignal == \A i \in 1..Len(categoryKeywords) : combinedScores(text)[i].score = 0

FederalReserveText ==
  "The Federal Reserve raised interest rates amid inflation concerns affecting the stock market"

\* the first visit of createWeightedVocabulary to a word
FirstVisit(w) ==
  CHOOSE i \in 1..Len(VocabularyEntries) :
    /\ VocabularyEntries[i].word = w
    /\ \A j \in 1..(i - 1) : VocabularyEntries[j].word # w

\* the weight of w after the first k visits, by the rule: the last primary or
\* secondary visit decides, and without any the weight is that of the other lists
WeightAfter(w, k) ==
  LET strong == {i \in 1..k : VocabularyEntries[i].word = w /\ VocabularyEntries[i].loop # "other"}
  IN  IF strong = {} THEN OtherWeight
      ELSE VocabularyEntries[CHOOSE i \in strong : \A j \in strong : j <= i].weight

VocabularyWords == {VocabularyEntries[i].word : i \in 1..Len(VocabularyEntries)}

PrimaryWords ==
  {VocabularyEntries[i].word : i \in {j \in 1..Len(VocabularyEntries) : VocabularyEntries[j].loop = "primary"}}

\* the vocabulary the rule of WeightAfter gives once every word is visited
FinalWeights == NewMap([w \in VocabularyWords |-> WeightAfter(w, Len(VocabularyEntries))])

\* C1: for every text that is not blank, predictions has exactly 7 entries,
\* one for each category, none missing or repeated, and every confidence is a
\* number in [0, 100].
C1_SevenEntriesInRange ==
  (pc = "returned" /\ Trim(text) # "") =>
     /\ Len(result.predictions) = 7
     /\ \A c \in CategoryNames :
          Cardinality({i \in 1..Len(result.predictions) : result.predictions[i].category = c}) = 1
     /\ \A i \in 1..Len(result.predictions) :
          /\ IsFinite(Confidences[i])
          /\ Confidences[i] <= Num(100)

\* C2: category and confidence of the result are those of the first element
\* of predictions.
C2_TopIsFirstPrediction ==
  pc = "returned" =>
     /\ result.category = result.predictions[1].category
     /\ result.confidence = result.predictions[1].confidence

\* a call has returned whose top category is not the first declared one
C2_Witness ==
  /\ pc = "returned"
  /\ IsFinite(result.confidence)
  /\ result.category # categoryKeywords[1].category
  /\ result.category = result.predictions[1].category

\* C3: when every category's combined score is zero, no confidence of the
\* result is NaN.
C3_NoSignalHasNoNaN ==
  (pc = "returned" /\ NoSignal) =>
     \A i \in 1..Len(result.predictions) : Confidences[i] # NaN

\* C4: a call with an empty or whitespace-only text fails with InvalidInput and
\* returns no result.
C4_BlankTextFails ==
  (pc = "returned" /\ Trim(text) = "") =>
     /\ thrown = "InvalidInput"
     /\ result = NoResult

\* C5: predictions is sorted by confidence in descending order (no entry has a
\* smaller confidence than a later one), and entries of equal confidence are
\* in declaration order.
C5_SortedDescendingStable ==
  pc = "returned" =>
     \A i, j \in 1..Len(result.predictions) :
        i < j =>
          /\ ~(IsFinite(Confidences[i]) /\ IsFinite(Confidences[j]) /\ Confidences[i] < Confidences[j])
          /\ Confidences[i] = Confidences[j] =>
               DeclarationIndex(result.predictions[i].category)
                 < DeclarationIndex(result.predictions[j].category)

\* a result with two categories of equal confidence above zero, headed by a
\* category that is not the first declared one
C5_Witness ==
  /\ pc = "returned"
  /\ result.category # categoryKeywords[1].category
  /\ \E i, j \in 1..Len(result.predictions) :
        /\ i < j
        /\ Confidences[i] = Confidences[j]
        /\ Confidences[i] > 0
  /\ \E i \in 1..Len(result.predictions) : Confidences[i] = 0

\* C6: two calls with the same text return the same result, whatever calls
\* are made between them.
C6_SameTextSameResult ==
  \A i, j \in 1..Len(calls) :
     calls[i].text = calls[j].text => calls[i].result = calls[j].result

\* the same text classified twice, with a call on another text in between,
\* the text scoring in more than one category
C6_Witness ==
  /\ Len(calls) >= 3
  /\ calls[1].text = calls[3].text
  /\ calls[2].text # calls[1].text
  /\ calls[1].result = calls[3].result
  /\ \E i \in 2..7 : IsFinite(calls[1].result.predictions[i].confidence)
                       /\ calls[1].result.predictions[i].confidence > 0

\* C7: once the vocabulary is built, no step (a call of classifyNews, or what
\* follows it) changes the weighted vocabulary.
C7_VocabularyUnchangedByCalls ==
  [][pc # "build" => weightedVocabulary' = weightedVocabulary]_vars

\* a call has returned on a text with a word that is not in the vocabulary,
\* and the vocabulary is the built one
C7_Witness ==
  /\ pc = "returned"
  /\ weightedVocabulary = FinalWeights
  /\ \E i \in 1..Len(preprocessText(text)) : ~MapHas(weightedVocabulary, preprocessText(text)[i])
  /\ \E i \in 1..Len(preprocessText(text)) : MapHas(weightedVocabulary, preprocessText(text)[i])

\* C8 as stated: a word is never overwritten, its weight is at all times that
\* of its first visit.
C8_FirstAssignmentWins ==
  \A w \in DOMAIN weightedVocabulary :
     weightedVocabulary[w] = VocabularyEntries[FirstVisit(w)].weight

\* C8 as amended: only the loop over the other lists is guarded.  A primary or
\* secondary visit overwrites, so that the weight of a word is that of its
\* last primary or secondary visit, and 1.5 if it has none.
C8_LastStrongAssignmentWins ==
  /\ cursor > 1 =>
       weightedVocabulary[VocabularyEntries[cursor - 1].word]
         = WeightAfter(VocabularyEntries[cursor - 1].word, cursor - 1)
  /\ pc # "build" => weightedVocabulary = FinalWeights

\* the vocabulary is built and holds a word whose weight is not that of its
\* first visit
C8_Witness ==
  /\ pc = "ready"
  /\ \E w \in DOMAIN weightedVocabulary :
        weightedVocabulary[w] # VocabularyEntries[FirstVisit(w)].weight

\* C9: in the built vocabulary every word of a primary term has weight 3.0.
C9_PrimaryWordsWeighThree ==
  pc # "build" => \A w \in PrimaryWords : weightedVocabulary[w] = PrimaryWeight

\* the vocabulary is built; "policy" was first visited in another list, and
\* "research" and "study" in a secondary list
C9_Witness ==
  /\ pc = "ready"
  /\ {"policy", "research", "study"} \subseteq PrimaryWords
  /\ VocabularyEntries[FirstVisit("policy")].loop = "other"
  /\ VocabularyEntries[FirstVisit("research")].loop = "secondary"
  /\ VocabularyEntries[FirstVisit("study")].loop = "secondary"
  /\ \A w \in {"policy", "research", "study"} : weightedVocabulary[w] = PrimaryWeight

\* C10: the Federal Reserve text is classified as Business, with all 7
\* categories in predictions.
C10_FederalReserveIsBusiness ==
  (pc = "returned" /\ text = FederalReserveText) =>
     /\ result.category = "Business"
     /\ {result.predictions[i].category : i \in 1..Len(result.predictions)} = CategoryNames
     /\ Len(result.predictions) = 7

C10_Witness ==
  /\ pc = "returned"
  /\ text = FederalReserveText
  /\ result.category = "Business"
  /\ result.predictions[2].category = "Technology"

NasaText ==
  "Scientists at NASA announced a breakthrough discovery using a new laboratory experiment"

QuarterbackText ==
  "The quarterback led his team to victory in the championship game"

\* the confidence a result reports for a category
ConfidenceOf(r, category) ==
  r.predictions[CHOOSE i \in 1..Len(r.predictions) : r.predictions[i].category = category].confidence

\* C11: the NASA text is classified as Science.
C11_NasaIsScience ==
  (pc = "returned" /\ text = NasaText) => result.category = "Science"

\* the NASA text has been classified: Science leads with 100 and the table's
\* first category, Technology, has no score
C11_Witness ==
  /\ pc = "returned"
  /\ text = NasaText
  /\ result.category = "Science"
  /\ result.confidence = Num(100)
  /\ ConfidenceOf(result, "Technology") = 0

\* C12: the quarterback text is classified as Sports.
C12_QuarterbackIsSports ==
  (pc = "returned" /\ text = QuarterbackText) => result.category = "Sports"

\* the quarterback text has been classified: Sports leads and every other
\* category follows in declaration order with confidence 0
C12_Witness ==
  /\ pc = "returned"
  /\ text = QuarterbackText
  /\ result.predictions[1] = [category |-> "Sports", confidence |-> Num(100)]
  /\ \A i \in 2..7 : result.predictions[i].confidence = 0
  /\ result.predictions[2].category = "Technology"

\* the terms of a category's lists of the given weight that occur in the
\* lower-cased text, each as <<list, position in the list>>
OccurringTerms(t, category, weight) ==
  LET lists == KeywordsOf(category).lists
  IN  {e \in UNION {{<<l, j>> : j \in 1..Len(lists[l].terms)} : l \in 1..Len(lists)} :
         /\ MatchWeight(lists[e[1]].type) = weight
         /\ Includes(ToLowerCase(t), ToLowerCase(lists[e[1]].terms[e[2]]))}

\* C14: for every category, the context scorer's weight is 4 for each primary
\* term, 3 for each secondary term and 2 for each term of another list that
\* occurs in the lower-cased text as a substring, and its match counter is the
\* number of these occurrences, a term being counted once for each list it is in.
C14_ContextMatchWeights ==
  pc = "returned" =>
     \A c \in CategoryNames :
        LET primary == Cardinality(OccurringTerms(text, c, 4))
            secondary == Cardinality(OccurringTerms(text, c, 3))
            other == Cardinality(OccurringTerms(text, c, 2))
        IN  /\ contextMatches(text, c).score = 4 * primary + 3 * secondary + 2 * other
            /\ contextMatches(text, c).matches = primary + secondary + other

\* a text classified in which "ai" occurs only inside the word "raised", and
\* "laboratory", a primary term and an institution of Science, counts twice
C14_Witness ==
  /\ pc = "returned"
  /\ text = "Raised laboratory"
  /\ \A i \in 1..Len(preprocessText(text)) : preprocessText(text)[i] # "ai"
  /\ contextMatches(text, "Technology") = [score |-> 4, matches |-> 1]
  /\ contextMatches(text, "Science") = [score |-> 6, matches |-> 2]

\* some category has a combined score above zero for the text of the last call
SomeSignal ==
  LET scores == combinedScores(text)
  IN  \E i \in 1..Len(scores) : IsFinite(scores[i].score) /\ scores[i].score > 0

\* C15: when some category has a combined score above zero, the first
\* prediction has confidence exactly 100, every confidence is in [0, 100], and
\* a category whose combined score is zero has confidence 0.
C15_TopIsHundred ==
  (pc = "returned" /\ SomeSignal) =>
     /\ result.predictions[1].confidence = Num(100)
     /\ \A i \in 1..Len(result.predictions) :
          IsFinite(Confidences[i]) /\ Confidences[i] <= Num(100)
     /\ LET scores == combinedScores(text)
        IN  \A i \in 1..Len(scores) :
               scores[i].score = 0 => ConfidenceOf(result, scores[i].category) = 0

\* a result with a confidence strictly between 0 and 100, and one of 0
C15_Witness ==
  /\ pc = "returned"
  /\ SomeSignal
  /\ result.predictions[1].confidence = Num(100)
  /\ \E i \in 2..7 : Confidences[i] > 0 /\ Confidences[i] < Num(100)
  /\ \E i \in 2..7 : Confidences[i] = 0

\* the lower-cased text has every primary keyword of the category in it
ContainsEveryPrimary(t, category) ==
  LET terms == ListsOfType(KeywordsOf(category), "primary")[1].terms
  IN  \A k \in 1..Len(terms) : Includes(ToLowerCase(t), ToLowerCase(terms[k]))

\* the lower-cased text has no keyword of any list of the category in it
ContainsNoKeyword(t, category) ==
  LET lists == KeywordsOf(category).lists
  IN  \A l \in 1..Len(lists) : \A k \in 1..Len(lists[l].terms) :
         ~Includes(ToLowerCase(t), ToLowerCase(lists[l].terms[k]))

\* C13: for every category X, a text with every primary keyword of X gets a
\* strictly greater confidence for X than a text with no keyword of X.
C13_PrimaryKeywordsRaiseConfidence ==
  \A i, j \in 1..Len(calls) : \A X \in CategoryNames :
     (ContainsEveryPrimary(calls[i].text, X) /\ ContainsNoKeyword(calls[j].text, X)) =>
        /\ IsFinite(ConfidenceOf(calls[i].result, X))
        /\ IsFinite(ConfidenceOf(calls[j].result, X))
        /\ ConfidenceOf(calls[i].result, X) > ConfidenceOf(calls[j].result, X)

\* the running call has not returned or thrown yet
FetchRunning == fetchCall.pc \in {"attempt", "delay"}

\* C16: the requests go through the proxies in list order, DefaultRetries
\* consecutive requests on each and so at most 6 in all; a proxy is left only
\* after all its attempts have failed; no request follows one that succeeded,
\* and the call returns the response of that request.
C16_ProxiesInOrderUntilSuccess ==
  /\ Len(requests) <= 6
  /\ \A k \in 1..Len(requests) :
       /\ (k - 1) \div DefaultRetries + 1 <= Len(CORS_PROXIES)
       /\ requests[k].proxy = CORS_PROXIES[(k - 1) \div DefaultRetries + 1]
       /\ k < Len(requests) => requests[k].outcome = "error"
  /\ FetchRunning => \A k \in 1..Len(requests) : requests[k].outcome = "error"
  /\ fetchCall.pc = "returned" =>
       /\ requests[Len(requests)].outcome = "response"
       /\ fetchCall.response = [proxy |-> requests[Len(requests)].proxy, request |-> Len(requests)]
  /\ fetchCall.pc = "thrown" => requests[Len(requests)].outcome = "error"

\* the call has returned the response of its fourth request, the second one
\* through the second proxy, after three failures
C16_Witness ==
  /\ fetchCall.pc = "returned"
  /\ Len(requests) = 4
  /\ requests[3].proxy = CORS_PROXIES[2]
  /\ requests[4].proxy = CORS_PROXIES[2]
  /\ fetchCall.response.proxy = CORS_PROXIES[2]
  /\ \A k \in 1..3 : requests[k].outcome = "error"

\* error.response?.status of an axios error is 401 or 426
Fatal(e) == e.axios /\ e.status \in {401, 426}

\* C17: a request that fails with status 401 or 426 is the last one, and the
\* call has thrown the dedicated error; a request that fails otherwise is
\* followed by a delay and, unless it was the last attempt on the last proxy,
\* by the next request; the error thrown after the last attempt is the error
\* of that attempt.
C17_FatalStatusEndsTheCall ==
  /\ \A k \in 1..Len(requests) :
       requests[k].outcome = "error" =>
          IF Fatal(requests[k].error)
            THEN /\ k = Len(requests)
                 /\ fetchCall.pc = "thrown"
                 /\ requests[k].delay = 0
                 /\ fetchCall.error = IF requests[k].error.status = 401 THEN InvalidApiKey
                                      ELSE UpgradePlan
            ELSE /\ requests[k].delay > 0
                 /\ k = Len(requests) =>
                      \/ fetchCall.pc = "delay"
                      \/ fetchCall.pc = "attempt" /\ k < 6
                      \/ fetchCall.pc = "thrown" /\ k = 6
  /\ (fetchCall.pc = "thrown" /\ ~Fatal(requests[Len(requests)].error)) =>
       /\ Len(requests) = 6
       /\ fetchCall.error = requests[6].error

\* the call has thrown 'Invalid API key' on the first attempt through the
\* second proxy, after a 429 and another error on the first proxy
C17_Witness ==
  /\ fetchCall.pc = "thrown"
  /\ fetchCall.error = InvalidApiKey
  /\ Len(requests) = 3
  /\ requests[1].error.status = 429
  /\ requests[1].delay = 2000
  /\ requests[2].error.status # 429
  /\ requests[2].delay = 2000
  /\ requests[3].error.status = 401

\* fetchRecommendations awaits fetchNewsArticles
AwaitingNews == loadCall.pc \in {"fetchCategory", "fetchGeneral"}

\* the fetches fetchRecommendations can still make: 5 for each round that has
\* not begun (3 categories at most, the general fetch, and one to spare), and
\* those left in the round it is in
FetchesLeft ==
  (3 - loadCall.attempts - 1) * 5
    + (IF loadCall.pc = "fetchCategory" THEN Len(loadCall.categories) - loadCall.k + 2 ELSE 1)

\* at most 3 rounds, at most 3 articles, no error of fetchNewsArticles on the
\* page, and after the rounds the list gathered is the list returned
RecommendationsBounded ==
  /\ loadCall.attempts <= 3
  /\ Len(loadCall.allRecommendations) <= 3
  /\ Len(dashboard.recommendations) <= 3
  /\ dashboard.error \notin NewsErrorMessages
  /\ loadCall.pc \in {"fetchCategory", "fetchGeneral"} =>
       loadCall.attempts < 3 /\ Len(loadCall.allRecommendations) < 3
  /\ loadCall.pc = "done" =>
       /\ loadCall.attempts = 3 \/ Len(loadCall.allRecommendations) = 3
       /\ dashboard.recommendations = loadCall.allRecommendations
       /\ ~dashboard.isLoading

\* C18: fetchRecommendations terminates and never throws: it makes at most 3
\* rounds whatever fetchNewsArticles returns or throws, every fetch that
\* resolves leaves fewer fetches to make, and its list never has more than 3
\* articles.
C18_ThreeRoundsThreeArticles ==
  /\ []RecommendationsBounded
  /\ [][AwaitingNews =>
          /\ FetchesLeft >= 1
          /\ AwaitingNews' => FetchesLeft' < FetchesLeft
          /\ ~AwaitingNews' => loadCall'.pc = "done"]_vars

\* fetchRecommendations has returned after three rounds with fewer than 3
\* articles, which the general fetch gave it, for a user with a history
C18_Witness ==
  /\ loadCall.pc = "done"
  /\ loadCall.attempts = 3
  /\ Len(dashboard.recommendations) = 2
  /\ dashboard.recommendations[2].category = "General"
  /\ Len(dashboard.history) > 0

C20_NoRecommendationFromHistory ==
  loadCall.pc = "done" =>
     \A n \in 1..Len(dashboard.recommendations) :
        ~SomeTitle(dashboard.history, dashboard.recommendations[n].title)

\* C21: classifyNewsText calls classifyNews only with a text that is not
\* empty once trimmed and only when no classification is in progress; after
\* a call isClassifying is false and classificationResult is the result of
\* the call, or error is a 'Classification failed' message.
C21_GuardedClassification ==
  /\ [](/\ ~home.isClassifying
        /\ \A n \in 1..Len(calls) : Trim(calls[n].text) # "")
  /\ [][calls' # calls =>
          /\ ~home.isClassifying
          /\ Trim(home.classificationText) # ""
          /\ calls' = Append(calls, [text |-> home.classificationText, result |-> result'])
          /\ ~home'.isClassifying
          /\ \/ thrown' = "none" /\ home'.classificationResult = result' /\ home'.error = "null"
             \/ thrown' # "none" /\ home'.error = "Classification failed: " \o thrown'
                                 /\ home'.classificationResult = home.classificationResult]_vars

\* the second classification from the page: a text with spaces around it has
\* been classified after another one, and its result is shown in place of
\* the first
C21_Witness ==
  /\ Len(calls) = 2
  /\ calls[1].text = "stock Raised"
  /\ calls[2].text = " research NASA, "
  /\ home.classificationText = calls[2].text
  /\ home.classificationResult = calls[2].result
  /\ home.classificationResult # calls[1].result
  /\ ~home.isClassifying

\* C22: when supabase answers signIn, signUp or signOut with an error, the
\* action throws and leaves the user as it was; an action sets the user (to
\* the user of the answer for signIn and signUp, to null for signOut) only
\* when the answer has no error.
C22_FailedAuthKeepsUser ==
  /\ [][authCall.pc = "await" /\ authCall' # authCall =>
          /\ authCall'.response \in Responses(authCall.action)
          /\ authCall'.response.error # "null" =>
               /\ authCall'.pc = "thrown"
               /\ authCall'.thrown # "null"
               /\ user' = user
          /\ authCall'.response.error = "null" =>
               /\ authCall'.pc = "returned"
               /\ user' = IF authCall.action = "signOut" THEN NoUser ELSE authCall'.response.user]_vars
  /\ [][authCall' # authCall /\ user' # user =>
          /\ authCall.pc = "await"
          /\ authCall'.pc = "returned"
          /\ authCall'.response.error = "null"]_vars

\* a signOut that failed: it has thrown the error of supabase and the user
\* who signed in is still the user
C22_Witness ==
  /\ authCall.pc = "thrown"
  /\ authCall.action = "signOut"
  /\ authCall.thrown = "Network request failed"
  /\ user = "user-2"

====
